---- MODULE Spec2Model ----
(***************************************************************************)
(* Speed Math (src/main.py): ten constrained arithmetic questions, a       *)
(* one-question-at-a-time quiz kept in st.session_state, a score           *)
(* (1/accuracy) * time_taken and a percentile against the scores table.    *)
(*                                                                         *)
(* Conventions.                                                            *)
(*   Optional[T]   None is <<>>, a present value v is <<v>>.               *)
(*   float         an exact fraction <<n, d>> with d > 0 (d = 0 is the     *)
(*                 non-finite result of a division by zero).               *)
(*   str (input)   a sequence of one-character strings.                    *)
(*   random.Random the stream of raw draws it will deliver, a finite tape  *)
(*                 read cyclically.                                        *)
(***************************************************************************)
EXTENDS Integers, Sequences, FiniteSets, TLC

VARIABLES
    session_state,  \* per browser session: st.session_state, a dict
    pc,             \* per session: 0 between script runs, else the next step of finish_quiz
    fq,             \* per session: the locals of its latest finish_quiz call
    rows,           \* the speed_math_scores table, in created_at order
    sb,             \* supabase_client(): "client" or None, fixed per server process
    tape,           \* make_question in isolation: the draws the generator will deliver
    made,           \* make_question in isolation: what it returned
    p_score,        \* percentile_rank in isolation: user_score
    p_history,      \* percentile_rank in isolation: history
    p_result        \* percentile_rank in isolation: what it returned

vars == <<session_state, pc, fq, rows, sb, tape, made, p_score, p_history, p_result>>

quizVars == <<session_state, pc, fq, rows, sb>>
genVars == <<tape, made>>
pctVars == <<p_score, p_history, p_result>>

(***************************************************************************)
(* Config                                                                  *)
(***************************************************************************)
NUM_QUESTIONS == 10
MAX_ABS_ANSWER == 143
MAX_DIV_ANSWER == 12
\* SCORE_EPS = 0.01
SCORE_EPS == <<1, 100>>

(***************************************************************************)
(* Bounds of the model                                                     *)
(***************************************************************************)
\* length of the tapes of raw draws tried on make_question in isolation
TapeLen == 3
\* longest history tried on percentile_rank in isolation
MaxHistory == 4
\* largest numerator of the scores tried on percentile_rank in isolation
MaxScoreNum == 2

(***************************************************************************)
(* Values                                                                  *)
(***************************************************************************)
None == <<>>
Some(v) == <<v>>

Abs(x) == IF x < 0 THEN -x ELSE x

\* float comparisons and arithmetic on fractions with positive denominators
FloatEq(x, y) == x[1] * y[2] = y[1] * x[2]
FloatGt(x, y) == x[1] * y[2] > y[1] * x[2]
FloatMax(x, y) == IF FloatGt(y, x) THEN y ELSE x
FloatOfInt(n) == <<n, 1>>
Finite(x) == x[2] # 0

Question(text, answer) == [text |-> text, answer |-> answer]

(***************************************************************************)
(* random.Random: _randbelow, choice, randint over a tape of raw draws      *)
(***************************************************************************)
RawValues == 0..24

randbelow(t, pos, n) == t[((pos - 1) % Len(t)) + 1] % n
choice(seq, t, pos) == seq[randbelow(t, pos, Len(seq)) + 1]
randint(lo, hi, t, pos) == lo + randbelow(t, pos, hi - lo + 1)

(***************************************************************************)
(* Question generation                                                     *)
(***************************************************************************)
clamp_ok_unbounded(ans) == TRUE

clamp_ok(ans) == Abs(ans) <= MAX_ABS_ANSWER

Operators == <<"+", "-", "×", "÷">>

Compute(op, a, b) ==
    CASE op = "×" -> a * b
      [] op = "+" -> a + b
      [] op = "-" -> a - b

\* the three `while True` loops: draw a, b until the answer passes clamp_ok
RECURSIVE rejection_loop(_, _, _)
rejection_loop(op, t, pos) ==
    LET a == randint(-12, 12, t, pos)
        b == randint(-12, 12, t, pos + 1)
        ans == Compute(op, a, b)
    IN  IF clamp_ok(ans)
        THEN [q |-> Question(ToString(a) \o " " \o op \o " " \o ToString(b), ans),
              op |-> op, a |-> a, b |-> b, pos |-> pos + 2]
        ELSE rejection_loop(op, t, pos + 2)

\* returns the Question, with the locals op, a, b and the generator's new position
make_question(t, pos) ==
    LET op == choice(Operators, t, pos)
    IN  IF op = "÷"
        THEN LET q == randint(0, MAX_DIV_ANSWER, t, pos + 1)
                 b == randint(1, 12, t, pos + 2)
                 a == b * q
             IN  [q |-> Question(ToString(a) \o " ÷ " \o ToString(b), q),
                  op |-> op, a |-> a, b |-> b, pos |-> pos + 3]
        ELSE rejection_loop(op, t, pos + 1)

(***************************************************************************)
(* percentile_rank                                                         *)
(***************************************************************************)
RECURSIVE count_worse(_, _)
count_worse(user_score, history) ==
    IF history = <<>> THEN 0
    ELSE (IF FloatGt(Head(history), user_score) THEN 1 ELSE 0)
         + count_worse(user_score, Tail(history))

RECURSIVE count_worse_or_equal(_, _)
count_worse_or_equal(user_score, history) ==
    IF history = <<>> THEN 0
    ELSE (IF FloatGt(user_score, Head(history)) THEN 0 ELSE 1)
         + count_worse_or_equal(user_score, Tail(history))

percentile_rank_ge(user_score, history) ==
    IF history = <<>> THEN None
    ELSE Some(<<100 * count_worse_or_equal(user_score, history), Len(history)>>)

percentile_rank(user_score, history) ==
    IF history = <<>> THEN None
    ELSE Some(<<100 * count_worse(user_score, history), Len(history)>>)

(***************************************************************************)
(* Start: the generator and the ten questions                              *)
(***************************************************************************)
\* period of the stream standing for the Mersenne Twister seeded with an int
MTPeriod == 31

\* random.Random(seed): a stream fixed by abs(seed), as random.seed does for ints
MT(sd) == [k \in 1..MTPeriod |-> ((7 * Abs(sd) + 3) * k + Abs(sd) * k * k) % 25]

make_rng_unseeded(sd, entropy) == entropy

\* random.Random(int(seed)) if int(seed) != 0 else random.Random()
make_rng(sd, entropy) == IF sd # 0 THEN MT(sd) ELSE entropy

\* [make_question(rng) for _ in range(n)]
RECURSIVE make_questions(_, _, _)
make_questions(t, pos, n) ==
    IF n = 0 THEN <<>>
    ELSE LET r == make_question(t, pos)
         IN  <<r.q>> \o make_questions(t, r.pos, n - 1)

(***************************************************************************)
(* The submitted text: int(raw.strip())                                    *)
(***************************************************************************)
Whitespace == {" ", "\t"}

DigitValue ==
    [c \in {"0", "1", "2", "3", "4", "5", "6", "7", "8", "9"} |->
        CASE c = "0" -> 0 [] c = "1" -> 1 [] c = "2" -> 2 [] c = "3" -> 3
          [] c = "4" -> 4 [] c = "5" -> 5 [] c = "6" -> 6 [] c = "7" -> 7
          [] c = "8" -> 8 [] c = "9" -> 9]

RECURSIVE lstrip(_)
lstrip(cs) ==
    IF cs # <<>> /\ Head(cs) \in Whitespace THEN lstrip(Tail(cs)) ELSE cs

RECURSIVE rstrip(_)
rstrip(cs) ==
    IF cs # <<>> /\ cs[Len(cs)] \in Whitespace
    THEN rstrip(SubSeq(cs, 1, Len(cs) - 1)) ELSE cs

strip(cs) == rstrip(lstrip(cs))

\* decimal digits, single underscores allowed between digits; None on ValueError
RECURSIVE int_digits(_, _, _)
int_digits(cs, acc, afterDigit) ==
    IF cs = <<>> THEN (IF afterDigit THEN Some(acc) ELSE None)
    ELSE IF Head(cs) \in DOMAIN DigitValue
         THEN int_digits(Tail(cs), 10 * acc + DigitValue[Head(cs)], TRUE)
    ELSE IF Head(cs) = "_" /\ afterDigit
         THEN int_digits(Tail(cs), acc, FALSE)
    ELSE None

\* int(text): optional sign, then digits; None on ValueError
int_of(cs) ==
    IF cs # <<>> /\ Head(cs) = "-"
    THEN LET v == int_digits(Tail(cs), 0, FALSE)
         IN  IF v = None THEN None ELSE Some(-v[1])
    ELSE IF cs # <<>> /\ Head(cs) = "+" THEN int_digits(Tail(cs), 0, FALSE)
    ELSE int_digits(cs, 0, FALSE)

parse_answer_zero(raw) ==
    LET v == int_of(strip(raw)) IN IF v = None THEN Some(0) ELSE v

\* raw = raw.strip(); try: val = int(raw) except Exception: val = None
parse_answer(raw) == int_of(strip(raw))

(***************************************************************************)
(* Supabase helpers                                                        *)
(***************************************************************************)
\* get_global_scores_supabase(limit: int = 5000)
DefaultLimit == 5000

Min(a, b) == IF a < b THEN a ELSE b

RECURSIVE ScoreColumn(_)
ScoreColumn(table) ==
    IF table = <<>> THEN <<>> ELSE <<Head(table).score>> \o ScoreColumn(Tail(table))

\* ok: whether the select's execute() returns (TRUE) or raises (FALSE)
get_global_scores_supabase(sbc, ok, table) ==
    IF sbc = None THEN [scores |-> <<>>, total |-> None, raised |-> FALSE]
    ELSE IF ok
         THEN [scores |-> ScoreColumn(SubSeq(table, 1, Min(DefaultLimit, Len(table)))),
               total |-> Some(Len(table)), raised |-> FALSE]
         ELSE [scores |-> <<>>, total |-> None, raised |-> FALSE]

insert_score_supabase_raising(sbc, ok, table, payload) ==
    IF sbc = None THEN [rows |-> table, ins |-> None, raised |-> FALSE]
    ELSE IF ok
         THEN [rows |-> Append(table, payload), ins |-> Some(Len(table) + 1),
               raised |-> FALSE]
         ELSE [rows |-> table, ins |-> None, raised |-> TRUE]

\* ok: whether the insert's execute() returns (TRUE) or raises (FALSE);
\* ins is the place of the new row in created_at order, None when nothing was stored
insert_score_supabase(sbc, ok, table, payload) ==
    IF sbc = None THEN [rows |-> table, ins |-> None, raised |-> FALSE]
    ELSE IF ok
         THEN [rows |-> Append(table, payload), ins |-> Some(Len(table) + 1),
               raised |-> FALSE]
         ELSE [rows |-> table, ins |-> None, raised |-> FALSE]

(***************************************************************************)
(* Session helpers                                                         *)
(***************************************************************************)
Sessions == {"s1", "s2"}

Pop(d, keys) == [k \in DOMAIN d \ keys |-> d[k]]
Put(d, k, v) == [x \in DOMAIN d \cup {k} |-> IF x = k THEN v ELSE d[x]]

\* lines 278-281, run at the top of every script run
init_flags(d) ==
    LET d1 == IF "started" \in DOMAIN d THEN d ELSE Put(d, "started", FALSE)
    IN  IF "finished" \in DOMAIN d1 THEN d1 ELSE Put(d1, "finished", FALSE)

reset_all_keeps_started(d) ==
    Pop(d, {"finished", "start_time", "questions", "idx", "user_answers",
            "seed", "last_run"})

reset_all(d) ==
    Pop(d, {"started", "finished", "start_time", "questions", "idx",
            "user_answers", "seed", "last_run"})

RECURSIVE count_present(_, _)
count_present(questions, user_answers) ==
    IF questions = <<>> \/ user_answers = <<>> THEN 0
    ELSE (IF Head(user_answers) # None THEN 1 ELSE 0)
         + count_present(Tail(questions), Tail(user_answers))

\* for q, ua in zip(questions, user_answers): if ua is not None and ua == q.answer
RECURSIVE count_correct(_, _)
count_correct(questions, user_answers) ==
    IF questions = <<>> \/ user_answers = <<>> THEN 0
    ELSE (IF Head(user_answers) # None /\ Head(user_answers)[1] = Head(questions).answer
          THEN 1 ELSE 0)
         + count_correct(Tail(questions), Tail(user_answers))

effective_acc_unclamped(accuracy) == accuracy

\* effective_acc = max(accuracy, SCORE_EPS)
effective_acc(accuracy) == FloatMax(accuracy, SCORE_EPS)

\* lines 214-230 of finish_quiz: the locals up to the score
score_run(d, end_time) ==
    LET time_taken == FloatOfInt(end_time - d.start_time)
        correct == count_correct(d.questions, d.user_answers)
        accuracy == <<correct, Len(d.questions)>>
        eff == effective_acc(accuracy)
        score == <<eff[2] * time_taken[1], eff[1] * time_taken[2]>>
    IN  [time_taken |-> time_taken, correct |-> correct,
         accuracy |-> accuracy, score |-> score]

FinishStepsInsertFirst == <<"insert", "read">>

\* the two calls of finish_quiz that reach the store, in program order
FinishSteps == <<"read", "insert">>

\* one store call of finish_quiz on its locals l; ok is the outcome of execute()
RunStep(step, l, table, sbc, ok) ==
    IF step = "read"
    THEN LET g == get_global_scores_supabase(sbc, ok, table)
         IN  [locals |-> Put(Put(Put(l, "history", g.scores),
                                 "total_count", g.total),
                             "pct", percentile_rank(l.score, g.scores)),
              rows |-> table, raised |-> g.raised]
    ELSE LET i == insert_score_supabase(sbc, ok, table,
                      [score |-> l.score, accuracy |-> l.accuracy,
                       time_taken |-> l.time_taken,
                       num_questions |-> NUM_QUESTIONS, correct |-> l.correct])
         IN  [locals |-> Put(l, "ins", i.ins), rows |-> i.rows, raised |-> i.raised]

\* lines 245-254: st.session_state.finished and last_run
finalize(d, l) ==
    Put(Put(d, "finished", TRUE), "last_run",
        [time_taken |-> l.time_taken, correct |-> l.correct,
         accuracy |-> l.accuracy, score |-> l.score, percentile |-> l.pct,
         global_count |-> IF l.total_count # None THEN l.total_count[1]
                          ELSE Len(l.history)])

\* finish_quiz entered by session s whose session_state is d: the locals and the
\* first store call; an exception ends the script run with d as it stands.
\* time.perf_counter() reads start_time + elapsed
finish_quiz(s, d, elapsed, ok) ==
    LET end_time == d.start_time + elapsed
        r == RunStep(FinishSteps[1], score_run(d, end_time), rows, sb, ok)
    IN  /\ rows' = r.rows
        /\ session_state' = [session_state EXCEPT ![s] = d]
        /\ IF r.raised
           THEN /\ pc' = [pc EXCEPT ![s] = 0]
                /\ fq' = [fq EXCEPT ![s] = None]
           ELSE /\ pc' = [pc EXCEPT ![s] = 2]
                /\ fq' = [fq EXCEPT ![s] = r.locals]

quiz_over_gt(i) == i > NUM_QUESTIONS

\* if st.session_state.idx >= NUM_QUESTIONS
quiz_over(i) == i >= NUM_QUESTIONS

(***************************************************************************)
(* The script's handlers                                                   *)
(***************************************************************************)
StartScreen(s) == pc[s] = 0 /\ ~session_state[s].started

FinishedScreen(s) ==
    pc[s] = 0 /\ session_state[s].started /\ session_state[s].finished

\* the in-progress screen is drawn only if questions[idx] exists (line 343)
InProgressScreen(s) ==
    /\ pc[s] = 0
    /\ session_state[s].started
    /\ ~session_state[s].finished
    /\ {"idx", "questions", "user_answers"} \subseteq DOMAIN session_state[s]
    /\ session_state[s].idx + 1 \in DOMAIN session_state[s].questions

\* the Start button; entropy is what random.Random() draws from the system,
\* t0 the reading of time.perf_counter()
Start(s, sd, entropy, t0) ==
    /\ StartScreen(s)
    /\ LET rng == make_rng(sd, entropy)
           d1 == Put(session_state[s], "seed", sd)
           d2 == Put(d1, "questions", make_questions(rng, 1, NUM_QUESTIONS))
           d3 == Put(d2, "user_answers", [i \in 1..NUM_QUESTIONS |-> None])
           d4 == Put(d3, "idx", 0)
           d5 == Put(d4, "start_time", t0)
           d6 == Put(d5, "started", TRUE)
           d7 == Put(d6, "finished", FALSE)
       IN  session_state' = [session_state EXCEPT ![s] = init_flags(d7)]
    /\ UNCHANGED <<pc, fq, rows, sb, genVars, pctVars>>

\* user_answers[idx] = val; idx += 1
Answer(d, val) ==
    Put(Put(d, "user_answers", [d.user_answers EXCEPT ![d.idx + 1] = val]),
        "idx", d.idx + 1)

\* the form's submit (lines 372-385)
Submit(s, raw, elapsed, ok) ==
    /\ InProgressScreen(s)
    /\ LET d == Answer(session_state[s], parse_answer(raw))
       IN  IF quiz_over(d.idx)
           THEN finish_quiz(s, d, elapsed, ok)
           ELSE /\ session_state' = [session_state EXCEPT ![s] = d]
                /\ UNCHANGED <<pc, fq, rows>>
    /\ UNCHANGED <<sb, genVars, pctVars>>

\* the Skip button (lines 357-362)
Skip(s, elapsed, ok) ==
    /\ InProgressScreen(s)
    /\ LET d == Answer(session_state[s], None)
       IN  IF quiz_over(d.idx)
           THEN finish_quiz(s, d, elapsed, ok)
           ELSE /\ session_state' = [session_state EXCEPT ![s] = d]
                /\ UNCHANGED <<pc, fq, rows>>
    /\ UNCHANGED <<sb, genVars, pctVars>>

\* the Finish Quiz button (lines 365-366)
FinishQuiz(s, elapsed, ok) ==
    /\ InProgressScreen(s)
    /\ finish_quiz(s, session_state[s], elapsed, ok)
    /\ UNCHANGED <<sb, genVars, pctVars>>

\* finish_quiz after its first store call: the second one, then lines 245-255
FinishResume(s, ok) ==
    /\ pc[s] = 2
    /\ LET r == RunStep(FinishSteps[2], fq[s], rows, sb, ok)
       IN  /\ rows' = r.rows
           /\ pc' = [pc EXCEPT ![s] = 0]
           /\ IF r.raised
              THEN /\ fq' = [fq EXCEPT ![s] = None]
                   /\ UNCHANGED session_state
              ELSE /\ fq' = [fq EXCEPT ![s] = r.locals]
                   /\ session_state' =
                          [session_state EXCEPT ![s] = finalize(@, r.locals)]
    /\ UNCHANGED <<sb, genVars, pctVars>>

\* the Reset button of the in-progress screen (lines 369-370)
Reset(s) ==
    /\ InProgressScreen(s)
    /\ session_state' = [session_state EXCEPT ![s] = init_flags(reset_all(@))]
    /\ fq' = [fq EXCEPT ![s] = None]
    /\ UNCHANGED <<pc, rows, sb, genVars, pctVars>>

\* "New run" and "Reset (local session only)" of the finished screen (lines 333-337)
NewRun(s) ==
    /\ FinishedScreen(s)
    /\ session_state' = [session_state EXCEPT ![s] = init_flags(reset_all(@))]
    /\ fq' = [fq EXCEPT ![s] = None]
    /\ UNCHANGED <<pc, rows, sb, genVars, pctVars>>

(***************************************************************************)
(* Inputs                                                                  *)
(***************************************************************************)
\* latest reading of time.perf_counter() at Start
MaxStartClock == 1
\* longest run, in seconds, of the one-client specification
MaxElapsed == 5
\* what time.perf_counter() may have advanced by when finish_quiz reads it
Elapsed == {1, MaxElapsed}
\* longest run, in seconds, of the two-client specification
MaxElapsedShared == 2
\* rows in the table beyond which the two-client specification starts no run
MaxRows == 2

\* what random.Random() may deliver: ten times "72 ÷ 6", and a mixed list
EntropyTapes ==
    { <<3, 12, 5>>,
      <<3, 12, 5, 2, 24, 24, 20, 5, 0, 13, 1>> }

\* what the user may type: texts of the integer 12, and texts of no integer
IntegerTexts ==
    { <<"1", "2">>, <<" ", "1", "2", " ">>, <<"+", "1", "_", "2">> }

MalformedTexts ==
    { <<>>, <<"a", "b", "c">>, <<"1", ".", "5">>, <<"1", "2", "a">>, <<"-">> }

Texts == IntegerTexts \cup MalformedTexts

\* a run of time t with c answers correct, as finish_quiz stores it
PastRun(t, c) ==
    LET d == [start_time |-> 0,
              questions |-> [i \in 1..NUM_QUESTIONS |-> Question("0 ÷ 1", 0)],
              user_answers |-> [i \in 1..NUM_QUESTIONS |->
                                   IF i <= c THEN Some(0) ELSE None]]
        l == score_run(d, t)
    IN  [score |-> l.score, accuracy |-> l.accuracy, time_taken |-> l.time_taken,
         num_questions |-> NUM_QUESTIONS, correct |-> l.correct]

\* the table as earlier runs left it: scores 3, 500, 4, 5
SeedTable == <<PastRun(3, 10), PastRun(5, 0), PastRun(2, 5), PastRun(5, 10)>>

IsolatedIdle ==
    /\ tape = <<>> /\ made = None
    /\ p_score = None /\ p_history = <<>> /\ p_result = None

(***************************************************************************)
(* One client: the whole quiz, against a table earlier runs have filled    *)
(***************************************************************************)
Client == "s1"

Init ==
    /\ session_state = [s \in Sessions |-> init_flags(<<>>)]
    /\ pc = [s \in Sessions |-> 0]
    /\ fq = [s \in Sessions |-> None]
    /\ rows = SeedTable
    /\ sb \in {None, Some("client")}
    /\ IsolatedIdle

Next ==
    \/ \E e \in EntropyTapes, t0 \in 0..MaxStartClock :
           rows = SeedTable /\ Start(Client, 0, e, t0)
    \/ \E raw \in Texts, el \in Elapsed, ok \in BOOLEAN :
           Submit(Client, raw, el, ok)
    \/ \E el \in Elapsed, ok \in BOOLEAN : Skip(Client, el, ok)
    \/ \E el \in Elapsed, ok \in BOOLEAN : FinishQuiz(Client, el, ok)
    \/ \E ok \in BOOLEAN : FinishResume(Client, ok)
    \/ Reset(Client)
    \/ NewRun(Client)

Spec == Init /\ [][Next]_vars

(***************************************************************************)
(* Two clients on one table: seeds, early finishes, interleaved store calls *)
(***************************************************************************)
SharedSeeds == {-1, 0, 1, 2}

SharedInit ==
    /\ session_state = [s \in Sessions |-> init_flags(<<>>)]
    /\ pc = [s \in Sessions |-> 0]
    /\ fq = [s \in Sessions |-> None]
    /\ rows = <<>>
    /\ sb = Some("client")
    /\ IsolatedIdle

SharedNext ==
    \E s \in Sessions :
        \/ \E sd \in SharedSeeds, e \in EntropyTapes :
               Len(rows) < MaxRows /\ Start(s, sd, e, 0)
        \/ \E el \in 1..MaxElapsedShared, ok \in BOOLEAN : FinishQuiz(s, el, ok)
        \/ \E ok \in BOOLEAN : FinishResume(s, ok)
        \/ Reset(s)
        \/ NewRun(s)

SpecShared == SharedInit /\ [][SharedNext]_vars

(***************************************************************************)
(* make_question in isolation: every tape of TapeLen raw draws             *)
(***************************************************************************)
Tapes == [1..TapeLen -> RawValues]

\* no browser session has done anything
QuizIdle ==
    /\ session_state = [s \in Sessions |-> init_flags(<<>>)]
    /\ pc = [s \in Sessions |-> 0]
    /\ fq = [s \in Sessions |-> None]
    /\ rows = <<>>
    /\ sb = None

GenInit ==
    /\ tape \in Tapes
    /\ made = None
    /\ p_score = None /\ p_history = <<>> /\ p_result = None
    /\ QuizIdle

GenMake ==
    /\ made = None
    /\ made' = Some(make_question(tape, 1))
    /\ UNCHANGED <<tape, quizVars, pctVars>>

GenNext == GenMake

SpecGen == GenInit /\ [][GenNext]_vars

(***************************************************************************)
(* percentile_rank in isolation: every score against every short history   *)
(***************************************************************************)
PctScores == {<<n, d>> : n \in 0..MaxScoreNum, d \in 1..2}

RECURSIVE SeqsUpTo(_, _)
SeqsUpTo(S, n) ==
    IF n = 0 THEN {<<>>}
    ELSE LET shorter == SeqsUpTo(S, n - 1)
         IN  shorter \cup {Append(h, x) : h \in shorter, x \in S}

PctInit ==
    /\ p_score \in {Some(x) : x \in PctScores}
    /\ p_history \in SeqsUpTo(PctScores, MaxHistory)
    /\ p_result = None
    /\ tape = <<>> /\ made = None
    /\ QuizIdle

PctRank ==
    /\ p_result = None
    /\ p_result' = Some(percentile_rank(p_score[1], p_history))
    /\ UNCHANGED <<p_score, p_history, genVars, quizVars>>

PctNext == PctRank

SpecPct == PctInit /\ [][PctNext]_vars

(***************************************************************************)
(* C1                                                                      *)
(***************************************************************************)
\* C1: every Question make_question returns has abs(answer) <= 143, and a
\* divide-operator question has 0 <= answer <= 12 (and its displayed dividend
\* is divisor * answer).
C1_AnswerBounds ==
    made # None =>
        LET r == made[1]
        IN  /\ r.q.answer <= 143 /\ r.q.answer >= -143
            /\ r.op = "÷" =>
                   /\ r.q.answer >= 0 /\ r.q.answer <= 12
                   /\ r.b >= 1 /\ r.a = r.b * r.q.answer

\* a multiply question whose first pair of draws was 12 x 12 = 144 and was rejected
C1_Witness ==
    /\ made # None
    /\ made[1].op = "×"
    /\ tape[2] = 24 /\ tape[3] = 24
    /\ made[1].pos > 4

(***************************************************************************)
(* C2                                                                      *)
(***************************************************************************)
StrictlyWorse(s, h) == {i \in 1..Len(h) : h[i][1] * s[2] > s[1] * h[i][2]}

\* C2: percentile_rank returns None for an empty history, and otherwise
\* 100 * (number of entries strictly greater than user_score) / len(history):
\* entries equal to user_score do not count, the result lies in [0, 100], and
\* the history [s+1, s+1, s-1, s-1] gives 50.
C2_PercentileRank ==
    p_result # None =>
        LET s == p_score[1]
            h == p_history
            r == p_result[1]
        IN  /\ (h = <<>>) <=> (r = None)
            /\ h # <<>> =>
                   /\ r[1][2] = Len(h)
                   /\ r[1][1] = 100 * Cardinality(StrictlyWorse(s, h))
                   /\ r[1][1] >= 0 /\ r[1][1] <= 100 * r[1][2]
                   /\ (\A i \in 1..Len(h) : FloatEq(h[i], s)) => r[1][1] = 0
            /\ (s[2] = 1 /\ h = <<FloatOfInt(s[1] + 1), FloatOfInt(s[1] + 1),
                                  FloatOfInt(s[1] - 1), FloatOfInt(s[1] - 1)>>)
                   => FloatEq(r[1], FloatOfInt(50))

\* the example of the spec: s = 1 against [2, 2, 0, 0]
C2_Witness ==
    /\ p_result # None
    /\ p_score = Some(<<1, 1>>)
    /\ p_history = <<<<2, 1>>, <<2, 1>>, <<0, 1>>, <<0, 1>>>>
    /\ p_result[1] = Some(<<200, 4>>)

(***************************************************************************)
(* Phases of a run                                                         *)
(***************************************************************************)
RunPhase(d) ==
    IF ~d.started THEN "NotStarted"
    ELSE IF d.finished THEN "Finished" ELSE "InProgress"

\* the positions where the answer is present and equals the question's
Matches(d) ==
    {i \in 1..NUM_QUESTIONS :
        d.user_answers[i] # None /\ d.user_answers[i][1] = d.questions[i].answer}

Scored(s) == fq[s] # None

(***************************************************************************)
(* C3                                                                      *)
(***************************************************************************)
\* C3: the history a run's percentile is computed from was read before the
\* run's own row was inserted: it is the score column of rows created strictly
\* before the run's own row, also when another session's calls come in between.
C3_HistoryBeforeInsert ==
    \A s \in Sessions :
        ({"history", "ins"} \subseteq DOMAIN fq[s] /\ fq[s].ins # None) =>
            /\ Len(fq[s].history) < fq[s].ins[1]
            /\ fq[s].ins[1] <= Len(rows)
            /\ fq[s].history = ScoreColumn(SubSeq(rows, 1, Len(fq[s].history)))
            /\ fq[s].pct = IF fq[s].history = <<>> THEN None
                           ELSE Some(<<100 * Cardinality(StrictlyWorse(fq[s].score,
                                                                    fq[s].history)),
                                       Len(fq[s].history)>>)
            /\ session_state[s].finished =>
                   session_state[s].last_run.percentile = fq[s].pct

\* both sessions read the empty table, then s1 inserted, then s2 inserted:
\* s2's history holds neither its own row nor s1's
C3_Witness ==
    /\ session_state["s1"].finished /\ session_state["s2"].finished
    /\ fq["s1"].ins = Some(1) /\ fq["s2"].ins = Some(2)
    /\ fq["s2"].total_count = Some(0)
    /\ fq["s2"].history = <<>>

(***************************************************************************)
(* C4                                                                      *)
(***************************************************************************)
\* C4: score = time_taken / max(accuracy, 0.01): finite whatever the number of
\* correct answers; time_taken when all 10 are correct; 100 * time_taken when
\* none is (500 for 5 seconds), and then the percentile is still computed
\* against the history.
C4_Score ==
    \A s \in Sessions :
        Scored(s) =>
            LET l == fq[s]
                t == l.time_taken
                c == l.correct
                d == session_state[s]
            IN  /\ Finite(l.score) /\ l.score[2] > 0
                /\ t[2] = 1 /\ t[1] \in Elapsed
                /\ IF 100 * c >= NUM_QUESTIONS
                   THEN l.score[1] * c = NUM_QUESTIONS * t[1] * l.score[2]
                   ELSE l.score[1] = 100 * t[1] * l.score[2]
                /\ c = NUM_QUESTIONS => FloatEq(l.score, t)
                /\ c = 0 =>
                       /\ FloatEq(l.score, <<100 * t[1], t[2]>>)
                       /\ t = FloatOfInt(5) => FloatEq(l.score, FloatOfInt(500))
                       /\ ("history" \in DOMAIN l /\ l.history # <<>>) =>
                              /\ l.pct # None
                              /\ l.pct[1][1] =
                                     100 * Cardinality(StrictlyWorse(l.score, l.history))
                              /\ l.pct[1][2] = Len(l.history)
                /\ d.finished =>
                       /\ d.last_run.score = l.score
                       /\ d.last_run.time_taken = t
                       /\ d.last_run.percentile = l.pct

\* a finished run of 5 seconds with no answer correct: score 500, percentile 0
\* against the four scores of the table
C4_Witness ==
    /\ session_state[Client].finished
    /\ session_state[Client].last_run.correct = 0
    /\ session_state[Client].last_run.time_taken = <<5, 1>>
    /\ session_state[Client].last_run.score = <<500, 1>>
    /\ session_state[Client].last_run.percentile = Some(<<0, 4>>)

(***************************************************************************)
(* C5                                                                      *)
(***************************************************************************)
\* C5: correct is the number of positions whose answer is present and equals
\* the question's answer, accuracy = correct / 10 lies in [0, 1], and
\* accuracy = 1 iff all 10 positions match; unanswered positions do not count.
C5_Accuracy ==
    \A s \in Sessions :
        Scored(s) =>
            LET l == fq[s]
                d == session_state[s]
            IN  /\ l.correct = Cardinality(Matches(d))
                /\ l.accuracy = <<l.correct, 10>>
                /\ l.correct >= 0 /\ l.correct <= 10
                /\ FloatEq(l.accuracy, FloatOfInt(1)) <=>
                       (\A i \in 1..10 :
                           /\ d.user_answers[i] # None
                           /\ d.user_answers[i][1] = d.questions[i].answer)
                /\ \A i \in 1..10 : i > d.idx => i \notin Matches(d)
                /\ d.finished =>
                       /\ d.last_run.correct = l.correct
                       /\ d.last_run.accuracy = l.accuracy

\* finished early after a right answer, a wrong one and a skip: 1 of 10
C5_Witness ==
    /\ session_state[Client].finished
    /\ session_state[Client].idx = 3
    /\ session_state[Client].questions[2].answer = -56
    /\ session_state[Client].user_answers[1] = Some(12)
    /\ session_state[Client].user_answers[2] = Some(12)
    /\ session_state[Client].user_answers[3] = None
    /\ session_state[Client].last_run.correct = 1

(***************************************************************************)
(* C6                                                                      *)
(***************************************************************************)
SameQuestions(s1, s2) ==
    /\ Len(session_state[s1].questions) = 10
    /\ session_state[s1].questions = session_state[s2].questions

\* C6 as stated: any two runs started with the same seed have the same questions
C6_Original ==
    \A s1, s2 \in Sessions :
        (/\ session_state[s1].started /\ session_state[s2].started
         /\ session_state[s1].seed = session_state[s2].seed)
            => SameQuestions(s1, s2)

\* C6, amended: two runs started with the same seed other than 0 have the same
\* ten questions, text and answer, whatever the system's entropy was.
C6_SeededDeterminism ==
    \A s1, s2 \in Sessions :
        (/\ session_state[s1].started /\ session_state[s2].started
         /\ session_state[s1].seed = session_state[s2].seed
         /\ session_state[s1].seed # 0)
            => SameQuestions(s1, s2)

\* both sessions were started with seed 2
C6_Witness ==
    /\ session_state["s1"].started /\ session_state["s2"].started
    /\ session_state["s1"].seed = 2 /\ session_state["s2"].seed = 2
    /\ session_state["s1"].questions[1].text = "32 ÷ 8"
    /\ session_state["s2"].questions[10].text = "0 ÷ 11"

(***************************************************************************)
(* C7                                                                      *)
(***************************************************************************)
\* a handler of s enters finish_quiz and its read of the history raises
ReadFails(s) ==
    \/ \E raw \in Texts, el \in Elapsed : Submit(s, raw, el, FALSE)
    \/ \E el \in Elapsed : Skip(s, el, FALSE)
    \/ \E el \in Elapsed : FinishQuiz(s, el, FALSE)

LastRunOf(l) ==
    [time_taken |-> l.time_taken, correct |-> l.correct,
     accuracy |-> l.accuracy, score |-> l.score]

C7_Step(s) ==
    /\ (pc[s] = 0 /\ session_state[s].started /\ ~session_state[s].finished
        /\ session_state'[s].started /\ session_state'[s].idx = 10)
           => pc'[s] = 2
    /\ (pc[s] = 0 /\ pc'[s] = 2 /\ (sb = None \/ ReadFails(s))) =>
           /\ fq'[s].history = <<>>
           /\ fq'[s].pct = None
           /\ fq'[s].total_count = None
    /\ pc[s] = 2 =>
           /\ \E ok \in BOOLEAN : ENABLED FinishResume(s, ok)
           /\ pc'[s] # pc[s] =>
                  /\ pc'[s] = 0
                  /\ session_state'[s].finished
                  /\ LET r == session_state'[s].last_run
                     IN  /\ LastRunOf(r) = LastRunOf(fq[s])
                         /\ r.percentile = fq[s].pct
                         /\ fq[s].total_count = None =>
                                r.percentile = None /\ r.global_count = 0
    /\ FinishResume(s, FALSE) => rows' = rows /\ session_state'[s].finished

\* C7: a persistence failure never aborts scoring: with the store unconfigured
\* or the read failing the history is empty and the percentile None, and the
\* run still becomes Finished with its record in last_run; a failing insert is
\* swallowed, stores nothing and the run still becomes Finished.
C7_FailuresDoNotAbort == [][\A s \in Sessions : C7_Step(s)]_vars

\* a configured store whose read and insert both failed: the run is Finished,
\* its record is there, the percentile is None and no row was added
C7_Witness ==
    /\ sb # None
    /\ session_state[Client].finished
    /\ fq[Client].total_count = None
    /\ fq[Client].ins = None
    /\ session_state[Client].last_run.percentile = None
    /\ session_state[Client].last_run.score = <<50, 10>>
    /\ rows = SeedTable

(***************************************************************************)
(* C8                                                                      *)
(***************************************************************************)
\* what a step of s that records no answer at position idx looks like
C8_RecordsAbsent(s) ==
    LET d == session_state[s]
        e == session_state'[s]
        i == d.idx + 1
    IN  /\ RunPhase(e) # "NotStarted"
        /\ e.user_answers[i] = None
        /\ e.idx = d.idx + 1
        /\ \A j \in 1..10 : j # i => e.user_answers[j] = d.user_answers[j]
        /\ e.questions = d.questions
        /\ IF e.idx = 10
           THEN /\ pc'[s] = 2
                /\ fq'[s].correct = Cardinality(Matches(d) \ {i})
           ELSE pc'[s] = 0 /\ RunPhase(e) = "InProgress"
        /\ \E el \in Elapsed, ok \in BOOLEAN : Skip(s, el, ok)

C8_Step(s) ==
    (pc[s] = 0 /\ RunPhase(session_state[s]) = "InProgress") =>
        \/ C8_RecordsAbsent(s)
        \/ ~(\E raw \in MalformedTexts, el \in Elapsed, ok \in BOOLEAN :
                Submit(s, raw, el, ok))

\* C8: submitting text that is no integer records None at position idx and
\* nothing else, advances the quiz as a valid answer (or a skip) does, and an
\* absent answer is never counted as correct when the run is scored.
C8_MalformedInput ==
    /\ [][\A s \in Sessions : C8_Step(s)]_vars
    /\ [](\A s \in Sessions :
            Scored(s) =>
                /\ \A i \in Matches(session_state[s]) :
                       session_state[s].user_answers[i] # None
                /\ fq[s].correct <=
                       Cardinality({i \in 1..10 :
                                       session_state[s].user_answers[i] # None}))

\* the last answer is absent, the nine before it are right: scored 9 of 10
C8_Witness ==
    /\ session_state[Client].finished
    /\ session_state[Client].idx = 10
    /\ session_state[Client].user_answers[10] = None
    /\ \A i \in 1..9 : session_state[Client].user_answers[i] = Some(12)
    /\ session_state[Client].last_run.correct = 9

(***************************************************************************)
(* C9                                                                      *)
(***************************************************************************)
\* C9 as stated: Finished is entered only with 10 answer-or-skip steps taken,
\* and nothing leaves Finished
C9_Original ==
    [][\A s \in Sessions :
          /\ (RunPhase(session_state[s]) # "Finished"
              /\ RunPhase(session_state'[s]) = "Finished")
                 => session_state'[s].idx = 10
          /\ RunPhase(session_state[s]) = "Finished"
                 => RunPhase(session_state'[s]) = "Finished"]_vars

C9_Step(s) ==
    LET d == session_state[s]
        e == session_state'[s]
    IN  CASE RunPhase(d) = "NotStarted" ->
                 /\ RunPhase(e) \in {"NotStarted", "InProgress"}
                 /\ RunPhase(e) = "InProgress" =>
                        /\ e.idx = 0
                        /\ \A i \in 1..10 : e.user_answers[i] = None
          [] RunPhase(d) = "InProgress" ->
                 /\ RunPhase(e) = "InProgress" =>
                        /\ {"idx", "questions", "user_answers"} \subseteq DOMAIN e
                        /\ e.idx = d.idx \/ e.idx = d.idx + 1
                        /\ e.idx <= 10
                        /\ (pc[s] = 0 /\ pc'[s] = 2 /\ e.idx = d.idx + 1)
                               => e.idx = 10
                        /\ (pc[s] = 0 /\ pc'[s] = 0) => e.idx < 10
                 /\ RunPhase(e) = "Finished" =>
                        /\ pc[s] = 2 /\ pc'[s] = 0
                        /\ e.idx = d.idx /\ e.idx <= 10
                        /\ e.user_answers = d.user_answers
          [] RunPhase(d) = "Finished" ->
                 /\ RunPhase(e) \in {"Finished", "NotStarted"}
                 /\ RunPhase(e) = "Finished" => e = d

\* C9, amended: NotStarted -> InProgress -> Finished, with Reset and New run
\* leading back to NotStarted: Finished is entered only from InProgress, after
\* at most 10 answer-or-skip steps (exactly 10 unless the Finish Quiz button
\* ended the run), nothing changes a Finished run, and it is left only to
\* NotStarted.
C9_RunStateMachine == [][\A s \in Sessions : C9_Step(s)]_vars

\* a run finished by the Finish Quiz button after three answer-or-skip steps
C9_Witness ==
    /\ RunPhase(session_state[Client]) = "Finished"
    /\ session_state[Client].idx = 3

(***************************************************************************)
(* C10                                                                     *)
(***************************************************************************)
\* C10: a started run has 10 questions and 10 answers; between script runs an
\* unfinished run has 0 <= idx < 10, so questions[idx] and user_answers[idx]
\* exist; idx = 10 is seen only in a run that is Finished or in the middle of
\* the finish_quiz that finishes it.
C10_IndexInRange ==
    \A s \in Sessions :
        LET d == session_state[s]
        IN  d.started =>
                /\ Len(d.questions) = 10 /\ Len(d.user_answers) = 10
                /\ d.idx >= 0 /\ d.idx <= 10
                /\ (pc[s] = 0 /\ ~d.finished) =>
                       /\ d.idx < 10
                       /\ d.idx + 1 \in DOMAIN d.questions
                       /\ d.idx + 1 \in DOMAIN d.user_answers
                /\ d.idx = 10 => (d.finished \/ pc[s] = 2)
                /\ pc[s] = 2 => ~d.finished

\* the last question is on the screen
C10_Witness ==
    /\ pc[Client] = 0
    /\ session_state[Client].started /\ ~session_state[Client].finished
    /\ session_state[Client].idx = 9

====
